---- MODULE Spec2Model ----
(* A model of package fsm (src/fsm.go): a RuleSet maps Transition keys to  *)
(* guard lists; Permitted evaluates the guards of the matched key in       *)
(* goroutines that report over an unbuffered channel; Machine.Transition   *)
(* calls SetState when Permitted returned true.                            *)
EXTENDS Integers, Sequences, FiniteSets, Bags, TLC

(* ------------------------------ bounds ------------------------------- *)
\* States are 0..MaxState.
MaxState == 2
\* The registration budget: guards registered, a registration call that
\* registers none counting as one.
MaxGuards == 2
\* Number of Machine.Transition calls made in one behaviour.
MaxCalls == 2

States == 0..MaxState
\* The goroutines that call Machine.Transition on the shared Machine.
Callers == {1, 2}

(* ------------------------- values of the code ------------------------ *)
\* Concrete types implementing the Transition interface: the package's T
\* and a caller-defined type.
TransTypes == {"T", "U"}
\* A Transition value: its dynamic type and what Origin() and Exit() return.
Transitions == [ty : TransTypes, O : States, E : States]
T(o, e) == [ty |-> "T", O |-> o, E |-> e]
Origin(t) == t.O
Exit(t) == t.E

\* A Guard is a func(subject, goal) bool.  The guards drawn here: one that
\* returns true, one that returns false, one that never returns, and the
\* closure AddTransition builds, which captures t.
GuardTrue == [kind |-> "True", o |-> 0]
GuardFalse == [kind |-> "False", o |-> 0]
GuardHang == [kind |-> "Hang", o |-> 0]
DefaultGuard(t) == [kind |-> "Default", o |-> Origin(t)]
CallerGuards == {GuardTrue, GuardFalse, GuardHang}

\* Does the guard return at all, and what it returns when the subject's
\* state is s at the moment the guard reads it.
Returns(g) == g.kind # "Hang"
GuardValue(g, s) ==
  CASE g.kind = "True" -> TRUE
    [] g.kind = "False" -> FALSE
    [] g.kind = "Default" -> (s = g.o)
    [] OTHER -> FALSE

ErrInvalidTransition == "invalid transition"
NoError == "nil"

(* ------------------------------ RuleSet ------------------------------ *)
\* RuleSet{}: the empty map.
EmptyRuleSet == [t \in {} |-> <<>>]
\* r[t] read on a map: the nil slice when t is absent.
Lookup(r, t) == IF t \in DOMAIN r THEN r[t] ELSE <<>>
\* r[t] = v
Store(r, t, v) == [k \in DOMAIN r \cup {t} |-> IF k = t THEN v ELSE r[k]]

RECURSIVE AddRule(_, _, _)
\* Faulty variant: stores r[t] even when there is no guard to append.
M_AddRuleAlwaysCreates(r, t, guards) ==
  IF guards = <<>> THEN Store(r, t, Lookup(r, t))
  ELSE AddRule(Store(r, t, Append(Lookup(r, t), Head(guards))), t, Tail(guards))
\* Faulty variant: each guard replaces the list instead of extending it.
M_AddRuleOverwrites(r, t, guards) ==
  IF guards = <<>> THEN r
  ELSE AddRule(Store(r, t, <<Head(guards)>>), t, Tail(guards))
\* for _, guard := range guards { r[t] = append(r[t], guard) }
AddRule(r, t, guards) ==
  IF guards = <<>> THEN r
  ELSE AddRule(Store(r, t, Append(Lookup(r, t), Head(guards))), t, Tail(guards))

\* r.AddRule(t, func(subject, goal) bool { return subject.CurrentState() == t.Origin() })
AddTransition(r, t) == AddRule(r, t, <<DefaultGuard(t)>>)

RECURSIVE CreateFrom(_, _)
CreateFrom(r, transitions) ==
  IF transitions = <<>> THEN r
  ELSE CreateFrom(AddTransition(r, Head(transitions)), Tail(transitions))
\* Faulty variant: the loop starts at the second transition.
M_CreateRuleSetSkipsFirst(transitions) ==
  IF transitions = <<>> THEN EmptyRuleSet
  ELSE CreateFrom(EmptyRuleSet, Tail(transitions))
\* r := RuleSet{}; for _, t := range transitions { r.AddTransition(t) }; return r
CreateRuleSet(transitions) == CreateFrom(EmptyRuleSet, transitions)

(* ------------------------------- state ------------------------------- *)
VARIABLES
  rules,    \* the RuleSet the Machine points to
  state,    \* the Subject's current state
  pc,       \* per caller: where its Transition call stands
  goal,     \* per caller: the goal of its call
  attempt,  \* per caller: the lookup key Permitted built
  guards,   \* per caller: the guard list Permitted found
  tasks,    \* per caller: the goroutines of its call, in launch order
  recv,     \* per caller: outcomes received by the collecting loop
  perm,     \* per caller: what Permitted returned ("none" before it returns)
  ret,      \* per caller: what Transition returned ("none" before it returns)
  orphans,  \* goroutines of finished calls that have not ended
  before,   \* history: the subject's state when the call started
  nset,     \* history: SetState calls made by the call
  setval,   \* history: the value the call passed to SetState
  alone,    \* history: no other call overlapped this one
  lastset,  \* history: the caller whose SetState ran last (0: none)
  nreg,     \* history: the registration budget used
  ncalls,   \* history: Transition calls made
  hist,     \* history: the transitions given to AddTransition, in order
  registered, \* history: the transitions given to a registration call
  mode,     \* history: how the RuleSet was built
  lastOp    \* history: the last registration call, its guards, the RuleSet before it

vars == <<rules, state, pc, goal, attempt, guards, tasks, recv, perm, ret,
          orphans, before, nset, setval, alone, lastset, nreg, ncalls,
          hist, registered, mode, lastOp>>

regVars == <<rules, nreg, hist, registered, mode, lastOp>>

callVars == <<pc, goal, attempt, guards, tasks, recv, perm, ret, orphans,
              before, nset, setval, alone, lastset, ncalls>>

InFlight(p) == pc[p] \in {"launch", "collect", "decide"}
Quiet == \A p \in Callers : ~InFlight(p)

\* RuleSet literals a caller can write down without any registration call:
\* the empty one, and one holding a key with an empty guard list.
LiteralRuleSets == {EmptyRuleSet, Store(EmptyRuleSet, T(0, 1), <<>>)}

NoOp == [op |-> "none", t |-> T(0, 0), n |-> 0, gs |-> <<>>,
         prev |-> EmptyRuleSet]

\* No Transition call has been made yet.
InitCalls ==
  /\ state = 0
  /\ pc = [p \in Callers |-> "idle"]
  /\ goal = [p \in Callers |-> 0]
  /\ attempt = [p \in Callers |-> T(0, 0)]
  /\ guards = [p \in Callers |-> <<>>]
  /\ tasks = [p \in Callers |-> <<>>]
  /\ recv = [p \in Callers |-> 0]
  /\ perm = [p \in Callers |-> "none"]
  /\ ret = [p \in Callers |-> "none"]
  /\ orphans = EmptyBag
  /\ before = [p \in Callers |-> 0]
  /\ nset = [p \in Callers |-> 0]
  /\ setval = [p \in Callers |-> 0]
  /\ alone = [p \in Callers |-> TRUE]
  /\ lastset = 0
  /\ ncalls = 0

\* New(&rules, subject) with a RuleSet literal.
Init ==
  /\ InitCalls
  /\ rules \in LiteralRuleSets
  /\ nreg = 0
  /\ hist = <<>>
  /\ registered = DOMAIN rules
  /\ mode = IF rules = EmptyRuleSet THEN "manual" ELSE "other"
  /\ lastOp = NoOp

(* --------------------------- registration ---------------------------- *)
\* What a registration call with n guards takes from the budget.
Cost(n) == IF n = 0 THEN 1 ELSE n

\* Registration is the setup of the Machine: it runs before the first
\* Transition call (the map has no lock, and the package expects the rules
\* to be in place before Transition is called).
AddRuleCall(t, gs) ==
  /\ ncalls = 0 /\ nreg + Cost(Len(gs)) <= MaxGuards
  /\ nreg' = nreg + Cost(Len(gs))
  /\ rules' = AddRule(rules, t, gs)
  /\ hist' = <<>>
  /\ registered' = registered \cup {t}
  /\ mode' = "other"
  /\ lastOp' = [op |-> "AddRule", t |-> t, n |-> Len(gs), gs |-> gs,
                prev |-> rules]
  /\ UNCHANGED <<state, callVars>>

AddTransitionCall(t) ==
  /\ ncalls = 0 /\ nreg + 1 <= MaxGuards
  /\ nreg' = nreg + 1
  /\ rules' = AddTransition(rules, t)
  /\ hist' = IF mode = "other" THEN hist ELSE Append(hist, t)
  /\ registered' = registered \cup {t}
  /\ mode' = mode
  /\ lastOp' = [op |-> "AddTransition", t |-> t, n |-> 1,
                gs |-> <<DefaultGuard(t)>>, prev |-> rules]
  /\ UNCHANGED <<state, callVars>>

\* rules := CreateRuleSet(ts...), in place of the RuleSet{} literal, before
\* the Machine is used.
CreateRuleSetCall(ts) ==
  /\ rules = EmptyRuleSet /\ lastOp = NoOp /\ ncalls = 0
  /\ nreg' = Cost(Len(ts))
  /\ rules' = CreateRuleSet(ts)
  /\ hist' = ts
  /\ registered' = {ts[i] : i \in 1..Len(ts)}
  /\ mode' = "create"
  /\ lastOp' = [op |-> "CreateRuleSet", t |-> T(0, 0), n |-> Len(ts),
                gs |-> <<>>, prev |-> rules]
  /\ UNCHANGED <<state, callVars>>

(* ---------------------------- Permitted ------------------------------ *)
\* Faulty variant: the key ignores the subject's state.
M_AttemptKeyFromGoal(s, g) == T(g, g)
\* attempt := T{subject.CurrentState(), goal}
AttemptKey(s, g) == T(s, g)

\* Faulty variants: ok is always true; ok is false for an empty guard list.
M_FoundAlways(r, a) == TRUE
M_FoundNonEmpty(r, a) == a \in DOMAIN r /\ r[a] # <<>>
\* guards, ok := r[attempt]
Found(r, a) == a \in DOMAIN r

NewTask(g) == [g |-> g, st |-> "start", val |-> FALSE]
\* go func(g Guard) { outcome <- g(subject, goal) }(guard): the goroutine
\* runs g, then blocks sending on the unbuffered channel.
RanTask(k, s) ==
  IF Returns(k.g) THEN [k EXCEPT !.st = "send", !.val = GuardValue(k.g, s)]
  ELSE [k EXCEPT !.st = "hung"]

\* Faulty variant: the goroutines of a call are stopped when it is over.
M_UnfinishedCancelled(ts) == EmptyBag
\* The goroutines of a call that have not ended.
Unfinished(ts) ==
  LET idx == {i \in 1..Len(ts) : ts[i].st # "done"}
      F[S \in SUBSET idx] ==
        IF S = {} THEN EmptyBag
        ELSE LET i == CHOOSE j \in S : TRUE
             IN F[S \ {i}] (+) SetToBag({ts[i]})
  IN F[idx]

\* Transition(goal) enters Permitted: it reads the subject's state, builds
\* the key and looks it up.  Goroutines left over from the caller's
\* previous call stay behind.
Call(p, g) ==
  /\ pc[p] \in {"idle", "done"} /\ ncalls < MaxCalls
  /\ ncalls' = ncalls + 1
  /\ goal' = [goal EXCEPT ![p] = g]
  /\ attempt' = [attempt EXCEPT ![p] = AttemptKey(state, g)]
  /\ before' = [before EXCEPT ![p] = state]
  /\ nset' = [nset EXCEPT ![p] = 0]
  /\ recv' = [recv EXCEPT ![p] = 0]
  /\ ret' = [ret EXCEPT ![p] = "none"]
  /\ orphans' = orphans (+) Unfinished(tasks[p])
  /\ tasks' = [tasks EXCEPT ![p] = <<>>]
  /\ alone' = [q \in Callers |->
                 IF q = p THEN Quiet ELSE alone[q] /\ ~InFlight(q)]
  /\ guards' = [guards EXCEPT ![p] = Lookup(rules, attempt'[p])]
  /\ IF Found(rules, attempt'[p])
       THEN /\ perm' = [perm EXCEPT ![p] = "none"]
            /\ pc' = [pc EXCEPT ![p] = "launch"]
       ELSE /\ perm' = [perm EXCEPT ![p] = "false"]
            /\ pc' = [pc EXCEPT ![p] = "decide"]
  /\ UNCHANGED <<state, setval, lastset, regVars>>

\* for _, guard := range guards { go func... }
Launch(p) ==
  /\ pc[p] = "launch"
  /\ IF Len(tasks[p]) < Len(guards[p])
       THEN /\ tasks' = [tasks EXCEPT
                  ![p] = Append(@, NewTask(guards[p][Len(tasks[p]) + 1]))]
            /\ pc' = pc
       ELSE /\ pc' = [pc EXCEPT ![p] = "collect"]
            /\ tasks' = tasks
  /\ UNCHANGED <<state, goal, attempt, guards, recv, perm, ret,
                 orphans, before, nset, setval, alone, lastset, ncalls,
                 regVars>>

\* A goroutine of the call runs its guard.
Run(p, i) ==
  /\ i \in 1..Len(tasks[p])
  /\ tasks[p][i].st = "start"
  /\ tasks' = [tasks EXCEPT ![p][i] = RanTask(@, state)]
  /\ UNCHANGED <<state, pc, goal, attempt, guards, recv, perm, ret,
                 orphans, before, nset, setval, alone, lastset, ncalls,
                 regVars>>

\* A goroutine of a finished call runs its guard.
OrphanRun(k) ==
  /\ k \in BagToSet(orphans)
  /\ k.st = "start"
  /\ orphans' = (orphans (-) SetToBag({k})) (+) SetToBag({RanTask(k, state)})
  /\ UNCHANGED <<state, pc, goal, attempt, guards, tasks, recv, perm,
                 ret, before, nset, setval, alone, lastset, ncalls,
                 regVars>>

\* Faulty variant: the loop stops one receive early.
M_CollectedOneShort(n, gl) == n >= Len(gl) - 1
\* Faulty variant: the loop waits for one outcome more than there are guards.
M_CollectedOneMore(n, gl) == n = Len(gl) + 1
\* for range guards { ... }: the loop ends after one receive per guard.
Collected(n, gl) == n = Len(gl)

\* Faulty variant: the test is inverted.
M_ShortCircuitOnTrue(o) == o
\* if !o { return false }
ShortCircuit(o) == ~o

\* One iteration of `for range guards { select { case o := <-outcome ... } }`:
\* the rendezvous with a goroutine blocked in its send.
Receive(p, i) ==
  /\ pc[p] = "collect"
  /\ ~Collected(recv[p], guards[p])
  /\ i \in 1..Len(tasks[p])
  /\ tasks[p][i].st = "send"
  /\ tasks' = [tasks EXCEPT ![p][i].st = "done"]
  /\ IF ShortCircuit(tasks[p][i].val)
       THEN /\ perm' = [perm EXCEPT ![p] = "false"]
            /\ pc' = [pc EXCEPT ![p] = "decide"]
            /\ recv' = recv
       ELSE /\ recv' = [recv EXCEPT ![p] = @ + 1]
            /\ UNCHANGED <<perm, pc>>
  /\ UNCHANGED <<state, goal, attempt, guards, ret, orphans, before,
                 nset, setval, alone, lastset, ncalls, regVars>>

\* return true // All guards passed
AllPassed(p) ==
  /\ pc[p] = "collect"
  /\ Collected(recv[p], guards[p])
  /\ perm' = [perm EXCEPT ![p] = "true"]
  /\ pc' = [pc EXCEPT ![p] = "decide"]
  /\ UNCHANGED <<state, goal, attempt, guards, tasks, recv, ret,
                 orphans, before, nset, setval, alone, lastset, ncalls,
                 regVars>>

\* What a Permitted(subject, goal) call yields on RuleSet r when the subject
\* stays at s for the whole call and goroutines are scheduled fairly:
\* "false" without a key or once a guard returned false, "hang" when no
\* guard returns false and some guard never returns, "true" otherwise.
PermittedOutcome(r, s, g) ==
  LET a == AttemptKey(s, g)
      gl == Lookup(r, a)
  IN IF ~Found(r, a) THEN "false"
     ELSE IF \E i \in 1..Len(gl) : Returns(gl[i]) /\ ShortCircuit(GuardValue(gl[i], s))
       THEN "false"
     ELSE IF \E i \in 1..Len(gl) : ~Returns(gl[i]) THEN "hang"
     ELSE "true"

(* ------------------------ Machine.Transition ------------------------- *)
\* Faulty variant: a Stater that ignores the value.
M_SetStateKeeps(s, g) == s
\* m.Subject.SetState(goal): the Stater stores the value it is given.
SetState(s, g) == g

\* Faulty variant: the denied branch returns nil too.
M_ResultAlwaysNil(ok) == NoError
\* return nil / return ErrInvalidTransition
Result(ok) == IF ok THEN NoError ELSE ErrInvalidTransition

\* Faulty variant: the condition is negated.
M_ApplyWhenDenied(p) == perm[p] = "false"
\* if m.Rules.Permitted(m.Subject, goal) {
PermittedBranch(p) == perm[p] = "true"

\* m.Subject.SetState(goal); return nil
Apply(p) ==
  /\ pc[p] = "decide"
  /\ PermittedBranch(p)
  /\ state' = SetState(state, goal[p])
  /\ nset' = [nset EXCEPT ![p] = @ + 1]
  /\ setval' = [setval EXCEPT ![p] = goal[p]]
  /\ lastset' = p
  /\ ret' = [ret EXCEPT ![p] = Result(TRUE)]
  /\ pc' = [pc EXCEPT ![p] = "done"]
  /\ UNCHANGED <<goal, attempt, guards, tasks, recv, perm, orphans,
                 before, alone, ncalls, regVars>>

\* return ErrInvalidTransition
Deny(p) ==
  /\ pc[p] = "decide"
  /\ ~PermittedBranch(p)
  /\ ret' = [ret EXCEPT ![p] = Result(FALSE)]
  /\ pc' = [pc EXCEPT ![p] = "done"]
  /\ UNCHANGED <<state, goal, attempt, guards, tasks, recv, perm,
                 orphans, before, nset, setval, alone, lastset, ncalls,
                 regVars>>

(* --------------------------- specification --------------------------- *)
RECURSIVE SeqsUpTo(_, _)
SeqsUpTo(S, n) ==
  IF n = 0 THEN {<<>>}
  ELSE LET shorter == SeqsUpTo(S, n - 1)
       IN shorter \cup {Append(q, x) : q \in shorter, x \in S}

\* The transitions registration calls are given: the forward moves of a
\* three-state machine under the package's type T, and one key of a
\* caller-defined type.
RegTransitions ==
  {T(0, 1), T(0, 2), T(1, 2), [ty |-> "U", O |-> 0, E |-> 1]}
GuardLists == SeqsUpTo(CallerGuards, MaxGuards)
TransitionLists == SeqsUpTo(RegTransitions, MaxGuards)
TaskIds == 1..MaxGuards

\* Sequential use: the rules are set up, then one goroutine calls
\* Transition, one call at a time.
Next ==
  \/ \E t \in RegTransitions, gs \in GuardLists : AddRuleCall(t, gs)
  \/ \E t \in RegTransitions : AddTransitionCall(t)
  \/ \E ts \in TransitionLists : CreateRuleSetCall(ts)
  \/ \E g \in States : Call(1, g)
  \/ \E p \in Callers : Launch(p)
  \/ \E p \in Callers, i \in TaskIds : Run(p, i)
  \/ \E k \in BagToSet(orphans) : OrphanRun(k)
  \/ \E p \in Callers, i \in TaskIds : Receive(p, i)
  \/ \E p \in Callers : AllPassed(p)
  \/ \E p \in Callers : Apply(p)
  \/ \E p \in Callers : Deny(p)

Spec == Init /\ [][Next]_vars

\* Concurrent use: the RuleSet is set up first, by one CreateRuleSet or one
\* AddRule call, and then the callers' Transition calls on the shared
\* Machine overlap freely.
InitConc ==
  /\ InitCalls
  /\ \/ \E ts \in TransitionLists :
          /\ rules = CreateRuleSet(ts)
          /\ hist = ts
          /\ registered = {ts[i] : i \in 1..Len(ts)}
          /\ lastOp = [op |-> "CreateRuleSet", t |-> T(0, 0), n |-> Len(ts),
                       gs |-> <<>>, prev |-> EmptyRuleSet]
          /\ nreg = Cost(Len(ts))
          /\ mode = "create"
     \/ \E t \in RegTransitions, gs \in GuardLists :
          /\ rules = AddRule(EmptyRuleSet, t, gs)
          /\ hist = <<>>
          /\ registered = {t}
          /\ lastOp = [op |-> "AddRule", t |-> t, n |-> Len(gs), gs |-> gs,
                       prev |-> EmptyRuleSet]
          /\ nreg = Cost(Len(gs))
          /\ mode = "other"

NextConc ==
  \/ \E p \in Callers, g \in States : Call(p, g)
  \/ \E p \in Callers : Launch(p)
  \/ \E p \in Callers, i \in TaskIds : Run(p, i)
  \/ \E k \in BagToSet(orphans) : OrphanRun(k)
  \/ \E p \in Callers, i \in TaskIds : Receive(p, i)
  \/ \E p \in Callers : AllPassed(p)
  \/ \E p \in Callers : Apply(p)
  \/ \E p \in Callers : Deny(p)

SpecConc == InitConc /\ [][NextConc]_vars

\* One goroutine's use of a Machine whose RuleSet is in place, with the Go
\* scheduler's guarantee: a goroutine that can take a step eventually takes
\* one, and a receive on a channel with a blocked sender completes.
NextSeq ==
  \/ \E g \in States : Call(1, g)
  \/ \E p \in Callers : Launch(p)
  \/ \E p \in Callers, i \in TaskIds : Run(p, i)
  \/ \E k \in BagToSet(orphans) : OrphanRun(k)
  \/ \E p \in Callers, i \in TaskIds : Receive(p, i)
  \/ \E p \in Callers : AllPassed(p)
  \/ \E p \in Callers : Apply(p)
  \/ \E p \in Callers : Deny(p)

Fairness ==
  /\ \A p \in Callers :
       /\ WF_vars(Launch(p))
       /\ \A i \in TaskIds : WF_vars(Run(p, i))
       /\ WF_vars(\E i \in TaskIds : Receive(p, i))
       /\ WF_vars(AllPassed(p))
       /\ WF_vars(Apply(p))
       /\ WF_vars(Deny(p))
  /\ WF_vars(\E k \in BagToSet(orphans) : OrphanRun(k))

SpecFair == InitConc /\ [][NextSeq]_vars /\ Fairness

(* ------------------------------ claims ------------------------------- *)
\* The RuleSet does not change once Transition calls have begun, so the
\* rules and registrations a call saw are the current ones.
Returned(p) == pc[p] = "done"
Decided(p) == pc[p] \in {"decide", "done"}
Called(p) == pc[p] # "idle"
HasKey(p) == attempt[p] \in DOMAIN rules
AllReturn(gl) == \A i \in 1..Len(gl) : Returns(gl[i])
SomeHangs(gl) == \E i \in 1..Len(gl) : ~Returns(gl[i])

\* C1: in sequential use, a Transition call whose Permitted returned true
\* calls SetState exactly once, with its goal, and returns nil; a call whose
\* Permitted returned false, or has not returned yet, has not called
\* SetState.
C1_SetStateIffPermitted ==
  \A p \in Callers :
    /\ (Called(p) /\ ~Returned(p)) => nset[p] = 0
    /\ Returned(p) =>
         /\ perm[p] \in {"true", "false"}
         /\ perm[p] = "true" =>
              (nset[p] = 1 /\ setval[p] = goal[p] /\ ret[p] = NoError
               /\ state = goal[p])
         /\ perm[p] = "false" => nset[p] = 0
C1_Witness ==
  /\ Returned(1) /\ perm[1] = "true" /\ nset[1] = 1
  /\ before[1] # goal[1] /\ state = goal[1]

\* C2: a denied Transition call returns ErrInvalidTransition and leaves the
\* subject's state as it was when the call started, whether the key was
\* missing or a guard returned false; a call returns nil or that error and
\* nothing else, and the error only when denied.
C2_DeniedReturnsSentinel ==
  \A p \in Callers :
    Returned(p) =>
      /\ ret[p] \in {NoError, ErrInvalidTransition}
      /\ perm[p] = "false" => (ret[p] = ErrInvalidTransition /\ state = before[p])
      /\ ret[p] = ErrInvalidTransition => perm[p] = "false"
C2_Witness ==
  /\ Returned(1) /\ HasKey(1) /\ perm[1] = "false"
  /\ ret[1] = ErrInvalidTransition /\ state = before[1]
  /\ ncalls = 2 /\ state # 0

\* C3: when the pair (subject's state, goal) was never given to a
\* registration call, under any Transition type, Permitted returns false
\* and launches no guard, whatever is registered under other keys.
PairRegistered(reg, s, g) == \E t \in reg : Origin(t) = s /\ Exit(t) = g
C3_FailClosed ==
  \A p \in Callers :
    (Called(p) /\ ~PairRegistered(registered, before[p], goal[p])) =>
      /\ perm[p] = "false"
      /\ tasks[p] = <<>>
      /\ Returned(p) => (ret[p] = ErrInvalidTransition /\ state = before[p])
C3_Witness ==
  /\ Returned(1) /\ ~PairRegistered(registered, before[1], goal[1])
  /\ \E t \in DOMAIN rules : rules[t] = <<GuardTrue>>
  /\ perm[1] = "false" /\ tasks[1] = <<>>

\* C4: with a RuleSet built only by AddTransition or CreateRuleSet, a
\* Permitted call on a subject nobody else moves returns true if and only
\* if the key T{subject's state, goal} was registered.
C4_AddTransitionIffRegistered ==
  \A p \in Callers :
    (Decided(p) /\ mode \in {"manual", "create"}) =>
      (perm[p] = "true" <=> T(before[p], goal[p]) \in registered)
C4_Witness ==
  /\ Returned(1) /\ mode = "manual" /\ ncalls = 2
  /\ registered = {T(0, 1)} /\ before[1] = 1 /\ goal[1] = 1
  /\ perm[1] = "false"

\* C5: when the key is found and every guard of its list returns,
\* Permitted returns true if and only if every guard returned true,
\* whatever the order in which the goroutines deliver.
C5_GuardConjunction ==
  \A p \in Callers :
    (Decided(p) /\ HasKey(p) /\ AllReturn(guards[p])) =>
      (perm[p] = "true" <=>
         \A i \in 1..Len(guards[p]) : GuardValue(guards[p][i], before[p]))
C5_Witness ==
  /\ Returned(1) /\ HasKey(1) /\ guards[1] = <<GuardTrue, GuardFalse>>
  /\ recv[1] = 1 /\ perm[1] = "false"

\* C6, as claimed: AddRule(t) with no guards on a RuleSet without t leaves
\* t present in the RuleSet.
C6_Original ==
  (lastOp.op = "AddRule" /\ lastOp.n = 0 /\ lastOp.t \notin DOMAIN lastOp.prev)
    => lastOp.t \in DOMAIN rules
\* C6, amended: AddRule(t) with no guards leaves the RuleSet as it was: an
\* absent t stays absent, a present t keeps its guard list.
C6_ZeroGuardsChangesNothing ==
  (lastOp.op = "AddRule" /\ lastOp.n = 0) => rules = lastOp.prev
C6_Witness ==
  /\ lastOp.op = "AddRule" /\ lastOp.n = 0
  /\ lastOp.t \notin DOMAIN lastOp.prev /\ lastOp.t \notin DOMAIN rules
  /\ \E t \in DOMAIN rules : Len(rules[t]) = 1

\* C7: the RuleSet CreateRuleSet builds from a list of transitions gives
\* the same Permitted outcome, for every subject state and goal, as the
\* RuleSet built from the empty one by AddTransition calls on the same
\* list in order, repeated transitions included; and that outcome is what
\* a Permitted call run step by step returns.
C7_CreateRuleSetEquivalent ==
  /\ mode = "manual" =>
        \A s \in States, g \in States :
          PermittedOutcome(CreateRuleSet(hist), s, g)
            = PermittedOutcome(rules, s, g)
  /\ \A p \in Callers :
        Decided(p) => perm[p] = PermittedOutcome(rules, before[p], goal[p])
C7_Witness ==
  /\ mode = "manual" /\ Len(hist) = 2 /\ hist[1] = hist[2]
  /\ lastOp.op = "AddTransition"
  /\ PermittedOutcome(rules, Origin(hist[1]), Exit(hist[1])) = "true"

\* C8: when the Transition calls of the two callers overlap, both can
\* return nil from the same origin for different goals; the subject is
\* always in the state passed by the SetState that ran last.
C8_LastSetStateWins ==
  /\ lastset # 0 => state = setval[lastset]
  /\ \A p \in Callers : (Returned(p) /\ ret[p] = NoError) => setval[p] = goal[p]
C8_Witness ==
  /\ T(0, 1) \in DOMAIN rules /\ T(0, 2) \in DOMAIN rules
  /\ \A p \in Callers : Returned(p) /\ ret[p] = NoError /\ before[p] = 0
                        /\ ~alone[p]
  /\ goal[1] = 1 /\ goal[2] = 2
  /\ lastset = 1 /\ state = 1

\* C9: when the key is found with an empty guard list, Permitted returns
\* true without launching a guard, and Transition sets the subject to the
\* goal and returns nil.
C9_VacuousTruth ==
  \A p \in Callers :
    (Called(p) /\ HasKey(p) /\ rules[attempt[p]] = <<>>) =>
      /\ tasks[p] = <<>>
      /\ Decided(p) => perm[p] = "true"
      /\ Returned(p) => (ret[p] = NoError /\ state = goal[p])
C9_Witness ==
  /\ Returned(1) /\ HasKey(1) /\ rules[attempt[1]] = <<>>
  /\ before[1] = 0 /\ goal[1] = 1 /\ state = 1 /\ ret[1] = NoError

\* C10, as claimed: when a guard of the matched key never returns, the
\* Transition call never returns, whatever the other guards return.
C10_Original ==
  \A p \in Callers :
    (Called(p) /\ HasKey(p) /\ SomeHangs(guards[p])) => ~Returned(p)
\* C10, amended: when a guard of the matched key never returns, the
\* Transition call never returns nil; it returns only after receiving a
\* false outcome from another guard of that key, and then it returns
\* ErrInvalidTransition.
C10_HangOrDenied ==
  \A p \in Callers :
    (Decided(p) /\ HasKey(p) /\ SomeHangs(guards[p])) =>
      /\ perm[p] = "false"
      /\ \E i \in 1..Len(tasks[p]) :
           tasks[p][i].st = "done" /\ ~tasks[p][i].val
      /\ Returned(p) => ret[p] = ErrInvalidTransition
C10_Witness ==
  /\ Returned(1) /\ HasKey(1) /\ guards[1] = <<GuardHang, GuardFalse>>
  /\ tasks[1][1].st = "hung" /\ ret[1] = ErrInvalidTransition

\* C11, as claimed: a rule registered under a Transition value t of any
\* type implementing the interface is the rule Permitted consults for a
\* subject at t.Origin() with goal t.Exit().
C11_Original ==
  \A p \in Callers, t \in DOMAIN rules :
    (Called(p) /\ before[p] = Origin(t) /\ goal[p] = Exit(t)) =>
      (HasKey(p) /\ guards[p] = rules[t])

\* C12: the RuleSet only grows, and only through registration: a
\* registration call keeps every key and keeps each key's old guard list as
\* a prefix of its new one; AddRule(t, g1..gk) appends g1..gk in order to
\* t's list and leaves every other key's list as it was; Transition calls
\* (and the Permitted calls inside them) leave the RuleSet as the last
\* registration call, or the literal, made it.
IsPrefix(a, b) == Len(a) <= Len(b) /\ SubSeq(b, 1, Len(a)) = a
C12_RuleSetOnlyGrows ==
  /\ \A k \in DOMAIN lastOp.prev :
       k \in DOMAIN rules /\ IsPrefix(lastOp.prev[k], rules[k])
  /\ lastOp.op = "AddRule" =>
       \A k \in Transitions :
         Lookup(rules, k) =
           IF k = lastOp.t THEN Lookup(lastOp.prev, k) \o lastOp.gs
           ELSE Lookup(lastOp.prev, k)
  /\ lastOp.op = "none" => rules \in LiteralRuleSets
C12_Witness ==
  /\ lastOp.op = "AddRule" /\ lastOp.t = T(0, 2) /\ lastOp.gs = <<GuardFalse>>
  /\ Lookup(lastOp.prev, T(0, 2)) = <<GuardTrue>>
  /\ Lookup(rules, T(0, 2)) = <<GuardTrue, GuardFalse>>
  /\ T(0, 1) \in DOMAIN rules /\ Lookup(rules, T(0, 1)) = <<>>
  /\ Returned(1) /\ attempt[1] = T(0, 2)

\* C13: a call that has applied SetState has, before that, launched one
\* goroutine for every guard of the matched key, and received from each of
\* them the outcome true; SetState is never applied while a guard of the
\* attempt has not been launched, has not returned, or has not delivered.
C13_SetStateAfterAllGuards ==
  \A p \in Callers :
    nset[p] > 0 =>
      /\ HasKey(p) /\ guards[p] = rules[attempt[p]]
      /\ Len(tasks[p]) = Len(guards[p]) /\ recv[p] = Len(guards[p])
      /\ \A i \in 1..Len(guards[p]) :
           /\ tasks[p][i].g = guards[p][i]
           /\ tasks[p][i].st = "done" /\ tasks[p][i].val
C13_Witness ==
  /\ nset[1] = 1 /\ Returned(1) /\ ret[1] = NoError
  /\ guards[1] = <<DefaultGuard(T(0, 1)), GuardTrue>>
  /\ tasks[1][2].st = "done" /\ state = 1

\* C14: Permitted returns false at the first false outcome it receives:
\* when it has returned false on a found key it has received exactly one
\* false outcome, after recv true ones, fewer outcomes than there are
\* guards; and, goroutines being scheduled fairly, a call whose matched key
\* has a guard that returns false eventually returns false, whatever the
\* other guards do.
DoneWith(p, v) ==
  {i \in 1..Len(tasks[p]) : tasks[p][i].st = "done" /\ tasks[p][i].val = v}
ReturnsAtFirstFalse ==
  \A p \in Callers :
    (Decided(p) /\ HasKey(p) /\ perm[p] = "false") =>
      /\ Cardinality(DoneWith(p, FALSE)) = 1
      /\ Cardinality(DoneWith(p, TRUE)) = recv[p]
      /\ recv[p] < Len(guards[p])
HasFalseGuard(p) ==
  /\ pc[p] \in {"launch", "collect"} /\ HasKey(p)
  /\ \E i \in 1..Len(guards[p]) :
       Returns(guards[p][i]) /\ ~GuardValue(guards[p][i], before[p])
C14_ShortCircuitOnFalse ==
  /\ []ReturnsAtFirstFalse
  /\ \A p \in Callers :
       HasFalseGuard(p) ~> (Decided(p) /\ perm[p] = "false")
C14_Witness ==
  /\ Returned(1) /\ ret[1] = ErrInvalidTransition
  /\ guards[1] = <<GuardHang, GuardFalse>>
  /\ tasks[1][1].st = "start" /\ tasks[1][2].st = "done"

\* C15: when every guard of the matched key returns, the Transition call
\* returns, goroutines being scheduled fairly; and Permitted has returned
\* on a found key only after receiving a false outcome, or after receiving
\* as many true outcomes as the key has guards.
ReturnsOnFalseOrAllTrue ==
  \A p \in Callers :
    (Decided(p) /\ HasKey(p)) =>
      \/ perm[p] = "false" /\ DoneWith(p, FALSE) # {}
      \/ /\ perm[p] = "true" /\ DoneWith(p, FALSE) = {}
         /\ recv[p] = Len(guards[p])
         /\ DoneWith(p, TRUE) = 1..Len(guards[p])
C15_CallerTerminates ==
  /\ []ReturnsOnFalseOrAllTrue
  /\ \A p \in Callers :
       (Called(p) /\ ~Returned(p) /\ AllReturn(guards[p])) ~> Returned(p)
C15_Witness ==
  /\ Returned(1) /\ HasKey(1) /\ guards[1] = <<GuardTrue, GuardTrue>>
  /\ perm[1] = "true" /\ recv[1] = 2 /\ ret[1] = NoError

\* C16: a Permitted call looks up the key T{state read when the call
\* started, goal}; the goroutines it launches run the guards of that key's
\* list and no others, and its result is the one it would give on a
\* RuleSet holding that key alone.
Only(r, k) == [t \in DOMAIN r \cap {k} |-> r[t]]
C16_LookupKeyDiscipline ==
  \A p \in Callers :
    Called(p) =>
      LET k == T(before[p], goal[p])
      IN /\ attempt[p] = k
         /\ guards[p] = Lookup(rules, k)
         /\ Len(tasks[p]) <= Len(Lookup(rules, k))
         /\ \A i \in 1..Len(tasks[p]) : tasks[p][i].g = Lookup(rules, k)[i]
         /\ Decided(p) =>
              perm[p] = PermittedOutcome(Only(rules, k), before[p], goal[p])
C16_Witness ==
  /\ Lookup(rules, T(0, 1)) = <<GuardTrue>>
  /\ Lookup(rules, T(0, 2)) = <<GuardFalse>>
  /\ Returned(1) /\ before[1] = 0 /\ goal[1] = 1 /\ perm[1] = "true"
  /\ tasks[1] = <<[g |-> GuardTrue, st |-> "done", val |-> TRUE]>>

\* C17: once a call on a found key awaits outcomes, it has launched one
\* goroutine per guard of the key, in order, each guard once, and it
\* receives nothing while launching; a goroutine is not stopped when
\* Permitted returns: a guard not yet run when the call returned is still
\* run afterwards: a goroutine waiting to run its guard leaves that state
\* only by running it, and, goroutines being scheduled fairly, no goroutine
\* is left waiting to run its guard.
AllTasks ==
  UNION {{tasks[p][i] : i \in 1..Len(tasks[p])} : p \in Callers}
    \cup BagToSet(orphans)
NotYetRun == {k \in AllTasks : k.st = "start"}
LaunchedOnceBeforeAwait ==
  \A p \in Callers :
    /\ pc[p] = "launch" => \A i \in 1..Len(tasks[p]) : tasks[p][i].st # "done"
    /\ (Called(p) /\ pc[p] # "launch") =>
         /\ Len(tasks[p]) = Len(guards[p])
         /\ \A i \in 1..Len(tasks[p]) : tasks[p][i].g = guards[p][i]
NeverStopped ==
  \A k \in NotYetRun : k \in NotYetRun' \/ RanTask(k, state) \in AllTasks'
C17_NoCancellation ==
  /\ []LaunchedOnceBeforeAwait
  /\ [][NeverStopped]_vars
  /\ \A p \in Callers :
       (Returned(p) /\ \E i \in 1..Len(tasks[p]) : tasks[p][i].st = "start")
         ~> (NotYetRun = {})
C17_Witness ==
  /\ Returned(1) /\ ret[1] = ErrInvalidTransition
  /\ guards[1] = <<GuardTrue, GuardFalse>>
  /\ tasks[1][1].st = "start" /\ tasks[1][2].st = "done"

\* C18, as claimed: when every guard function returns, every goroutine a
\* Permitted call launched delivers its outcome and ends, also when
\* Permitted returned false early: goroutines being scheduled fairly, no
\* goroutine stays blocked in its send.
AllRulesReturn == \A t \in DOMAIN rules : AllReturn(rules[t])
C18_Original ==
  (AllRulesReturn /\ AllTasks # {}) ~> (\A k \in AllTasks : k.st = "done")

\* C19: in sequential use of a RuleSet built only with AddTransition or
\* CreateRuleSet, every change of the subject's state goes from some s to
\* some g with T{s, g} registered, and the subject is always in a state
\* that registered transitions lead to from the initial state.
OnlyDefaultRules == mode \in {"manual", "create"}
ReachableFrom(reg, s0) ==
  LET F[n \in 0..(MaxState + 1)] ==
        IF n = 0 THEN {s0}
        ELSE F[n - 1] \cup {g \in States : \E s \in F[n - 1] : T(s, g) \in reg}
  IN F[MaxState + 1]
RegisteredMove == state' # state => T(state, state') \in registered
C19_SequentialPathConformance ==
  /\ [](OnlyDefaultRules => state \in ReachableFrom(registered, 0))
  /\ [][OnlyDefaultRules => RegisteredMove]_vars
C19_Witness ==
  /\ OnlyDefaultRules /\ registered = {T(0, 1), T(1, 2)}
  /\ ncalls = 2 /\ Returned(1) /\ before[1] = 1 /\ state = 2

\* C20, as claimed: with a RuleSet built only with AddTransition, when
\* Transition calls on the same subject overlap, every SetState(goal) is
\* applied while the pair (state immediately before the write, goal) is
\* registered.
Writes(p) == nset'[p] > nset[p]
C20_Original ==
  [][\A p \in Callers :
       (Writes(p) /\ mode = "create") =>
         PairRegistered(registered, state, goal[p])]_vars
\* C20, amended: every SetState(goal) is applied by a call for which
\* T{state the call read when it started, goal} is registered; the state
\* immediately before the write differs from the state the call read only
\* when another call overlapped it.
C20_ConformsToStateRead ==
  [][\A p \in Callers :
       (Writes(p) /\ mode = "create") =>
         /\ T(before[p], goal[p]) \in registered
         /\ state # before[p] => ~alone[p]]_vars
C20_Witness ==
  /\ mode = "create" /\ registered = {T(0, 1), T(0, 2)}
  /\ \A p \in Callers : Returned(p) /\ ret[p] = NoError /\ before[p] = 0
  /\ setval[1] = 1 /\ setval[2] = 2 /\ lastset = 2 /\ state = 2

====
